---- MODULE Spec2Model ----
(***************************************************************************)
(* Model of src/app.py: the Streamlit script of the AI Einstein avatar.    *)
(*                                                                         *)
(* Streamlit executes the whole script once per interaction (a "run").     *)
(* st.session_state survives between runs; the script's own names          *)
(* (user_input, response_text, session_data, ...) are fresh in every run.  *)
(* A run is cut at its remote calls: pc is the call the run is waiting on. *)
(* The outcome of every remote call is chosen by the environment.          *)
(***************************************************************************)
EXTENDS Integers, Sequences, FiniteSets, TLC

\* ------------------------------------------------------------ bounds
\* chat_history is unbounded in the program; inputs that would make it
\* longer than this are not offered by the environment.
MaxHistory == 3
\* Number of create-session calls the avatar service is asked for.
MaxSessions == 2

\* ------------------------------------------------------------ constants
\* check_task_status(session_id, task_id, max_attempts=10)
max_attempts == 10

\* Python's None for the session fields (session ids are 1..MaxSessions).
NoSession == 0
\* Python's None / an unbound name, for the string-valued names.
None == "None"

\* Sentinel and error texts the transcription functions return as text.
CouldNotUnderstand == "Could not understand audio"
GoogleRequestError == "Error connecting to Google Speech Recognition service"
WhisperNoKey == "No API key available for speech recognition"
WhisperServiceError == "Error with speech recognition service"
WhisperException == "Error processing audio"
\* The fixed bilingual reply of get_einstein_response on failure.
Apology == "Forgive me, but I cannot answer at this moment. Perhaps we should try another question?"

\* What a user can type in the form (the empty text is a Send on an empty box).
FormTexts == {"", "Why is the sky blue?"}
\* What a recognizer can hear; the second stands for a Korean utterance.
SpokenTexts == {"haneul-eun wae paran-gayo"}
KoreanTexts == {"haneul-eun wae paran-gayo"}
\* What the language model can answer.
ModelReplyText == "The sky scatters blue light..."
ModelReplies == {ModelReplyText}

VARIABLES
    \* st.session_state
    session_id, access_token, url, player_ready,
    chat_history, current_response, user_language,
    microphone_available,
    \* configuration and widgets
    gemini_api_key, heygen_api_key, openai_api_key,
    asr_provider, uploaded_file,
    \* names of the running script
    pc, surface, submit, form_text, chat, session_data,
    user_input, response_text, attempts, task_status,
    \* the avatar service and the calls made in this run (observation only)
    next_session, started, live,
    llm_sent, llm_outcome, spoken, start_calls, status_requests, only_processing, h0,
    \* the start calls of all runs so far, and the surface whose turn ended in
    \* the st.rerun() that began this run (observation only)
    start_log, rerun_of

sessionVars == <<session_id, access_token, url, player_ready>>
transcriptVars == <<chat_history, current_response, user_language>>
configVars == <<microphone_available, gemini_api_key, heygen_api_key, openai_api_key>>
widgetVars == <<asr_provider, uploaded_file>>
scriptVars == <<surface, submit, form_text, chat, session_data,
                user_input, response_text, attempts, task_status>>
remoteVars == <<next_session, started, live>>
callVars == <<llm_sent, llm_outcome, spoken, start_calls, status_requests,
              only_processing, h0>>
recordVars == <<start_log, rerun_of>>

vars == <<sessionVars, transcriptVars, configVars, widgetVars, pc, scriptVars,
          remoteVars, callVars, recordVars>>


\* ------------------------------------------------------------ pure parts

\* detect_language: 'Korean' when langdetect answers 'ko', 'English' for every
\* other answer and when detection raises.
detect_language(text) == IF text \in KoreanTexts THEN "Korean" ELSE "English"

\* The test without its first sentinel.
AudioAcceptedWithoutSentinel(text) ==
    /\ text # ""
    /\ text # WhisperServiceError

\* The test both audio surfaces apply to the transcription result:
\* user_input and user_input != "Could not understand audio"
\*            and user_input != "Error with speech recognition service"
AudioAccepted(text) ==
    /\ text # ""
    /\ text # CouldNotUnderstand
    /\ text # WhisperServiceError

\* google_speech_recognition: the recognized text, or one of two texts
\* returned in place of sr.UnknownValueError and sr.RequestError.
GoogleResults == SpokenTexts \cup {CouldNotUnderstand, GoogleRequestError}

\* whisper_asr: without a key the no-key text; otherwise the "text" field of a
\* 200 response ("" when absent), or one of two error texts.
WhisperResults ==
    IF ~openai_api_key
    THEN {WhisperNoKey}
    ELSE SpokenTexts \cup {"", WhisperServiceError, WhisperException}

TranscriptionResults ==
    IF asr_provider = "Google Speech Recognition" THEN GoogleResults ELSE WhisperResults

\* initialize_einstein_bot: None without a Gemini key, else the chat kept in
\* st.session_state (created when absent).
initialize_einstein_bot == IF gemini_api_key THEN "chat" ELSE None

UserEntry(text) == [role |-> "user", content |-> text]
AssistantEntry(text) == [role |-> "assistant", content |-> text]

\* The avatar guard of every turn: st.session_state.player_ready and
\* st.session_state.session_id
AvatarActive == player_ready /\ session_id # NoSession

\* ------------------------------------------------------------ a run begins

\* The names of a script run before the run has bound them, and the record of
\* the calls the run has made.
FreshNames ==
    /\ surface' = "none"
    /\ session_data' = "unset"
    /\ user_input' = None
    /\ response_text' = None
    /\ attempts' = 0
    /\ task_status' = "none"
    /\ llm_sent' = <<>>
    /\ llm_outcome' = "none"
    /\ spoken' = <<>>
    /\ start_calls' = <<>>
    /\ status_requests' = 0
    /\ only_processing' = TRUE
    /\ h0' = Len(chat_history)

\* A run in which message_form was not submitted.
FreshScript ==
    /\ FreshNames
    /\ submit' = FALSE
    /\ form_text' = ""

Init ==
    /\ session_id = NoSession
    /\ access_token = NoSession
    /\ url = NoSession
    /\ player_ready = FALSE
    /\ chat_history = <<>>
    /\ current_response = None
    /\ user_language = "English"
    /\ microphone_available \in BOOLEAN
    /\ gemini_api_key \in BOOLEAN
    /\ heygen_api_key \in BOOLEAN
    /\ openai_api_key \in BOOLEAN
    /\ asr_provider = "Google Speech Recognition"
    /\ uploaded_file = FALSE
    /\ pc = "idle"
    /\ surface = "none"
    /\ submit = FALSE
    /\ form_text = ""
    /\ chat = initialize_einstein_bot
    /\ session_data = "unset"
    /\ user_input = None
    /\ response_text = None
    /\ attempts = 0
    /\ task_status = "none"
    /\ next_session = 1
    /\ started = {}
    /\ live = {}
    /\ llm_sent = <<>>
    /\ llm_outcome = "none"
    /\ spoken = <<>>
    /\ start_calls = <<>>
    /\ status_requests = 0
    /\ only_processing = TRUE
    /\ h0 = 0
    /\ start_log = <<>>
    /\ rerun_of = "none"

\* "Reload with new API settings": the five keys are deleted and the script
\* reruns; the next run's initialisation finds them absent and stores None,
\* False, None, None, and initialize_einstein_bot makes a new chat.
ClickReload ==
    /\ pc = "idle"
    /\ UNCHANGED recordVars
    /\ session_id' = NoSession
    /\ player_ready' = FALSE
    /\ access_token' = NoSession
    /\ url' = NoSession
    /\ chat' = None
    /\ pc' = "rerun"
    /\ UNCHANGED <<transcriptVars, configVars, widgetVars, remoteVars>>
    /\ UNCHANGED <<surface, submit, form_text, session_data, user_input,
                   response_text, attempts, task_status, callVars>>

\* st.rerun(): the run stops here and the script runs again with no button
\* pressed and no form submitted; an uploaded file stays in the uploader.
Rerun ==
    /\ pc = "rerun"
    /\ rerun_of' = surface
    /\ UNCHANGED start_log
    /\ FreshScript
    /\ chat' = initialize_einstein_bot
    /\ pc' = "upload"
    /\ UNCHANGED <<sessionVars, transcriptVars, configVars, widgetVars, remoteVars>>

\* "Start Avatar Session" pressed (the button is disabled without a HeyGen key).
ClickStart ==
    /\ pc = "idle"
    /\ UNCHANGED recordVars
    /\ heygen_api_key
    /\ next_session <= MaxSessions
    /\ FreshScript
    /\ chat' = initialize_einstein_bot
    /\ pc' = "create_session"
    /\ UNCHANGED <<sessionVars, transcriptVars, configVars, widgetVars, remoteVars>>

\* "Stop Avatar Session" pressed (the button is disabled without a session_id).
ClickStop ==
    /\ pc = "idle"
    /\ UNCHANGED recordVars
    /\ session_id # NoSession
    /\ FreshScript
    /\ chat' = initialize_einstein_bot
    /\ pc' = "stop_session"
    /\ UNCHANGED <<sessionVars, transcriptVars, configVars, widgetVars, remoteVars>>

\* "Record Voice Input" pressed (shown only when a microphone was found).
ClickVoice ==
    /\ pc = "idle"
    /\ UNCHANGED recordVars
    /\ microphone_available
    /\ FreshScript
    /\ chat' = initialize_einstein_bot
    /\ pc' = "voice"
    /\ UNCHANGED <<sessionVars, transcriptVars, configVars, widgetVars, remoteVars>>

\* "Send" pressed in message_form with some text in the box.
SubmitForm ==
    /\ pc = "idle"
    /\ UNCHANGED recordVars
    /\ \E t \in FormTexts :
        /\ t # "" => Len(chat_history) + 1 <= MaxHistory
        /\ FreshNames
        /\ submit' = TRUE
        /\ form_text' = t
    /\ chat' = initialize_einstein_bot
    /\ pc' = "upload"
    /\ UNCHANGED <<sessionVars, transcriptVars, configVars, widgetVars, remoteVars>>

\* A file is put into, or taken out of, the uploader.
ChangeUpload ==
    /\ pc = "idle"
    /\ uploaded_file' = ~uploaded_file
    /\ UNCHANGED recordVars
    /\ FreshScript
    /\ chat' = initialize_einstein_bot
    /\ pc' = "upload"
    /\ UNCHANGED <<sessionVars, transcriptVars, configVars, asr_provider, remoteVars>>

\* The other speech recognition provider is selected in the sidebar.
SelectProvider ==
    /\ pc = "idle"
    /\ UNCHANGED recordVars
    /\ asr_provider' = IF asr_provider = "Google Speech Recognition"
                       THEN "OpenAI Whisper" ELSE "Google Speech Recognition"
    /\ FreshScript
    /\ chat' = initialize_einstein_bot
    /\ pc' = "upload"
    /\ UNCHANGED <<sessionVars, transcriptVars, configVars, uploaded_file, remoteVars>>


\* ------------------------------------------------------------ avatar session

\* A handler that goes on to start_session whatever create_session returned.
create_session_unchecked ==
    /\ pc = "create_session"
    /\ UNCHANGED recordVars
    /\ \E outcome \in {"data", "malformed", "error"} :
        IF outcome = "data"
        THEN /\ session_data' = "data"
             /\ session_id' = next_session
             /\ access_token' = next_session
             /\ url' = next_session
             /\ next_session' = next_session + 1
             /\ live' = live \cup {next_session}
             /\ pc' = "start_session"
             /\ UNCHANGED <<player_ready, started>>
        ELSE /\ session_data' = "None"
             /\ pc' = "start_session"
             /\ UNCHANGED <<sessionVars, remoteVars>>
    /\ UNCHANGED <<transcriptVars, configVars, widgetVars, callVars>>
    /\ UNCHANGED <<surface, submit, form_text, chat, user_input, response_text,
                   attempts, task_status>>

\* create_session, and the handler's three assignments when it returns data.
\* A response without data.session_id, a non-2xx answer and a transport error
\* all return None; the handler then does nothing more.
create_session ==
    /\ pc = "create_session"
    /\ UNCHANGED recordVars
    /\ \E outcome \in {"data", "malformed", "error"} :
        IF outcome = "data"
        THEN /\ session_data' = "data"
             /\ session_id' = next_session
             /\ access_token' = next_session
             /\ url' = next_session
             /\ next_session' = next_session + 1
             /\ live' = live \cup {next_session}
             /\ pc' = "start_session"
             /\ UNCHANGED <<player_ready, started>>
        ELSE /\ session_data' = "None"
             /\ pc' = "upload"
             /\ UNCHANGED <<sessionVars, remoteVars>>
    /\ UNCHANGED <<transcriptVars, configVars, widgetVars, callVars>>
    /\ UNCHANGED <<surface, submit, form_text, chat, user_input, response_text,
                   attempts, task_status>>

\* A handler that calls start_session again when it returned False.
start_session_retry ==
    /\ pc = "start_session"
    /\ start_calls' = Append(start_calls, session_id)
    /\ start_log' = Append(start_log, session_id)
    /\ UNCHANGED rerun_of
    /\ \E ok \in BOOLEAN :
        IF ok
        THEN /\ player_ready' = TRUE
             /\ started' = started \cup {session_id}
             /\ pc' = "rerun"
        ELSE /\ pc' = "start_session"
             /\ UNCHANGED <<player_ready, started>>
    /\ UNCHANGED <<session_id, access_token, url, next_session, live>>
    /\ UNCHANGED <<transcriptVars, configVars, widgetVars, scriptVars>>
    /\ UNCHANGED <<llm_sent, llm_outcome, spoken, status_requests, only_processing, h0>>

\* start_session(st.session_state.session_id): True on code 100 or message
\* "success", then player_ready = True and st.rerun(); False otherwise, and the
\* run goes on.
start_session ==
    /\ pc = "start_session"
    /\ start_calls' = Append(start_calls, session_id)
    /\ start_log' = Append(start_log, session_id)
    /\ UNCHANGED rerun_of
    /\ \E ok \in BOOLEAN :
        IF ok
        THEN /\ player_ready' = TRUE
             /\ started' = started \cup {session_id}
             /\ pc' = "rerun"
        ELSE /\ pc' = "upload"
             /\ UNCHANGED <<player_ready, started>>
    /\ UNCHANGED <<session_id, access_token, url, next_session, live>>
    /\ UNCHANGED <<transcriptVars, configVars, widgetVars, scriptVars>>
    /\ UNCHANGED <<llm_sent, llm_outcome, spoken, status_requests, only_processing, h0>>

\* A stop handler that forgets player_ready.
stop_session_keeps_ready ==
    /\ pc = "stop_session"
    /\ UNCHANGED recordVars
    /\ \E ok \in BOOLEAN :
        IF ok
        THEN /\ session_id' = NoSession
             /\ started' = started \ {session_id}
             /\ live' = live \ {session_id}
             /\ pc' = "rerun"
             /\ UNCHANGED player_ready
        ELSE /\ pc' = "upload"
             /\ UNCHANGED <<session_id, player_ready, started, live>>
    /\ UNCHANGED <<access_token, url, next_session>>
    /\ UNCHANGED <<transcriptVars, configVars, widgetVars, scriptVars, callVars>>

\* stop_session(st.session_state.session_id): on True the handler stores
\* session_id = None, player_ready = False and reruns.
stop_session ==
    /\ pc = "stop_session"
    /\ UNCHANGED recordVars
    /\ \E ok \in BOOLEAN :
        IF ok
        THEN /\ session_id' = NoSession
             /\ player_ready' = FALSE
             /\ started' = started \ {session_id}
             /\ live' = live \ {session_id}
             /\ pc' = "rerun"
        ELSE /\ pc' = "upload"
             /\ UNCHANGED <<session_id, player_ready, started, live>>
    /\ UNCHANGED <<access_token, url, next_session>>
    /\ UNCHANGED <<transcriptVars, configVars, widgetVars, scriptVars, callVars>>


\* ------------------------------------------------------------ audio turns

\* Where the run goes when an audio surface takes no turn: the voice button's
\* block is followed by the uploader's, the uploader's by message_form.
AfterSurface(s) == IF s = "voice" THEN "upload" ELSE "text_form"

\* The block of an audio surface up to the language-model call: record or read
\* the audio, transcribe it with the selected provider, test the result, and
\* for an accepted text store its language and append the user entry.  An
\* exception (no speech within the timeout, an unreadable audio file) is caught
\* by the block's except clause and leaves every name as it was.
Transcribe(s) ==
    /\ \/ s = "voice" /\ pc = "voice"
       \/ s = "upload" /\ pc = "upload" /\ uploaded_file
    /\ \/ /\ pc' = AfterSurface(s)
          /\ UNCHANGED <<user_input, surface, transcriptVars>>
       \/ \E text \in TranscriptionResults :
            /\ user_input' = text
            /\ IF AudioAccepted(text)
               THEN /\ Len(chat_history) + 2 <= MaxHistory
                    /\ surface' = s
                    /\ user_language' = detect_language(text)
                    /\ chat_history' = Append(chat_history, UserEntry(text))
                    /\ pc' = "get_response"
                    /\ UNCHANGED current_response
               ELSE /\ pc' = AfterSurface(s)
                    /\ UNCHANGED <<surface, transcriptVars>>
    /\ UNCHANGED <<sessionVars, configVars, widgetVars, remoteVars, callVars>>
    /\ UNCHANGED <<submit, form_text, chat, session_data, response_text,
                   attempts, task_status>>
    /\ UNCHANGED recordVars

VoiceTurn == Transcribe("voice")

UploadTurn == Transcribe("upload")

\* The avatar asked to repeat the question.
SpeakUserInput == user_input

\* The text the avatar is asked to speak: response_text in all three blocks.
SpeakText == response_text

\* A get_einstein_response that lets the exception of chat.send_message out:
\* the except clause of the audio block catches it and the block ends.
get_einstein_response_raises ==
    /\ pc = "get_response"
    /\ \E reply \in ModelReplies \cup {Apology} :
        /\ chat = None => reply = Apology
        /\ llm_outcome' = IF reply = Apology THEN "raised" ELSE "reply"
        /\ IF reply = Apology
           THEN /\ pc' = AfterSurface(surface)
                /\ UNCHANGED <<response_text, current_response, chat_history>>
           ELSE /\ response_text' = reply
                /\ current_response' = reply
                /\ chat_history' = Append(chat_history, AssistantEntry(reply))
                /\ pc' = IF AvatarActive THEN "speak" ELSE "rerun"
    /\ llm_sent' = IF chat = None THEN llm_sent ELSE Append(llm_sent, user_input)
    /\ UNCHANGED recordVars
    /\ UNCHANGED <<sessionVars, user_language, configVars, widgetVars, remoteVars>>
    /\ UNCHANGED <<surface, submit, form_text, chat, session_data, user_input,
                   attempts, task_status>>
    /\ UNCHANGED <<spoken, start_calls, status_requests, only_processing, h0>>

\* get_einstein_response(chat, user_input) and the lines after it: the reply
\* (the fixed apology when chat.send_message raises, which it also does when
\* chat is None) becomes response_text and current_response, the assistant
\* entry is appended, and the avatar guard decides whether to speak.
get_einstein_response ==
    /\ pc = "get_response"
    /\ \E reply \in ModelReplies \cup {Apology} :
        /\ chat = None => reply = Apology
        /\ response_text' = reply
        /\ current_response' = reply
        /\ chat_history' = Append(chat_history, AssistantEntry(reply))
        /\ llm_outcome' = IF reply = Apology THEN "raised" ELSE "reply"
    /\ llm_sent' = IF chat = None THEN llm_sent ELSE Append(llm_sent, user_input)
    /\ UNCHANGED recordVars
    /\ pc' = IF AvatarActive THEN "speak" ELSE "rerun"
    /\ UNCHANGED <<sessionVars, user_language, configVars, widgetVars, remoteVars>>
    /\ UNCHANGED <<surface, submit, form_text, chat, session_data, user_input,
                   attempts, task_status>>
    /\ UNCHANGED <<spoken, start_calls, status_requests, only_processing, h0>>

\* A task POST whose failure takes the reply out of the transcript again.
send_message_to_avatar_rollback ==
    /\ pc = "speak"
    /\ UNCHANGED recordVars
    /\ spoken' = Append(spoken, [session_id |-> session_id,
                                 text |-> response_text,
                                 history |-> Len(chat_history),
                                 started |-> session_id \in started])
    /\ \E outcome \in {"task", "post_rejected", "post_error"} :
        IF outcome = "task"
        THEN /\ task_status' = "polling"
             /\ attempts' = 0
             /\ pc' = "poll"
             /\ UNCHANGED chat_history
        ELSE /\ task_status' = outcome
             /\ pc' = "rerun"
             /\ chat_history' = SubSeq(chat_history, 1, Len(chat_history) - 1)
             /\ UNCHANGED attempts
    /\ UNCHANGED <<sessionVars, current_response, user_language, configVars,
                   widgetVars, remoteVars>>
    /\ UNCHANGED <<surface, submit, form_text, chat, session_data, user_input,
                   response_text>>
    /\ UNCHANGED <<llm_sent, llm_outcome, start_calls, status_requests, only_processing, h0>>

\* send_message_to_avatar up to its call of check_task_status: the task POST.
\* Code 100 with data.task_id starts the polling; any other answer and any
\* exception return None, and the turn goes on to st.rerun().
send_message_to_avatar ==
    /\ pc = "speak"
    /\ UNCHANGED recordVars
    /\ spoken' = Append(spoken, [session_id |-> session_id,
                                 text |-> SpeakText,
                                 history |-> Len(chat_history),
                                 started |-> session_id \in started])
    /\ \E outcome \in {"task", "post_rejected", "post_error"} :
        IF outcome = "task"
        THEN /\ task_status' = "polling"
             /\ attempts' = 0
             /\ pc' = "poll"
        ELSE /\ task_status' = outcome
             /\ pc' = "rerun"
             /\ UNCHANGED attempts
    /\ UNCHANGED <<sessionVars, transcriptVars, configVars, widgetVars, remoteVars>>
    /\ UNCHANGED <<surface, submit, form_text, chat, session_data, user_input,
                   response_text>>
    /\ UNCHANGED <<llm_sent, llm_outcome, start_calls, status_requests, only_processing, h0>>

\* The loop test one too generous, and one too strict.
PollAgainInclusive(n) == n <= max_attempts

PollAgainEarly(n) == n < max_attempts - 1

\* The loop test of check_task_status.
PollAgain(n) == n < max_attempts

\* What check_task_status does with one answer to its status request.
\* "complete" returns True, "failed" returns False, an answer without
\* data.status returns False, an exception returns False; every other status
\* counts an attempt and sleeps.
StatusAnswers == {"processing", "unknown", "complete", "failed", "missing", "error"}

\* One pass of the loop of check_task_status: one status request.
check_task_status ==
    /\ pc = "poll"
    /\ UNCHANGED recordVars
    /\ PollAgain(attempts)
    /\ status_requests' = status_requests + 1
    /\ \E answer \in StatusAnswers :
        /\ only_processing' = (only_processing /\ answer \in {"processing", "complete"})
        /\ IF answer \in {"complete", "failed", "missing", "error"}
           THEN /\ task_status' = answer
                /\ pc' = "rerun"
                /\ UNCHANGED attempts
           ELSE /\ attempts' = attempts + 1
                /\ UNCHANGED <<pc, task_status>>
    /\ UNCHANGED <<sessionVars, transcriptVars, configVars, widgetVars, remoteVars>>
    /\ UNCHANGED <<surface, submit, form_text, chat, session_data, user_input,
                   response_text>>
    /\ UNCHANGED <<llm_sent, llm_outcome, spoken, start_calls, h0>>

\* The loop of check_task_status ends with attempts = max_attempts: it returns
\* False without another request.
check_task_status_exhausted ==
    /\ pc = "poll"
    /\ UNCHANGED recordVars
    /\ ~PollAgain(attempts)
    /\ task_status' = "timeout"
    /\ pc' = "rerun"
    /\ UNCHANGED <<sessionVars, transcriptVars, configVars, widgetVars, remoteVars>>
    /\ UNCHANGED <<surface, submit, form_text, chat, session_data, user_input,
                   response_text, attempts, callVars>>

\* ------------------------------------------------------------ the text form

\* message_form.  A submitted non-empty text has its language stored and its
\* user entry appended; the assistant entry is then built from response_text,
\* a name this block never binds and no earlier block of a run that gets here
\* has bound, so the run ends there with a NameError.
message_form ==
    /\ \/ pc = "text_form"
       \/ pc = "upload" /\ ~uploaded_file
    /\ user_input' = form_text
    /\ IF submit /\ form_text # ""
       THEN /\ surface' = "text"
            /\ user_language' = detect_language(form_text)
            /\ chat_history' = Append(chat_history, UserEntry(form_text))
            /\ UNCHANGED current_response
       ELSE UNCHANGED <<surface, transcriptVars>>
    /\ pc' = "done"
    /\ UNCHANGED <<sessionVars, configVars, widgetVars, remoteVars, callVars>>
    /\ UNCHANGED <<submit, form_text, chat, session_data, response_text,
                   attempts, task_status>>
    /\ UNCHANGED recordVars

\* The run is over and the page waits for the next interaction.
EndRun ==
    /\ pc = "done"
    /\ rerun_of' = "none"
    /\ UNCHANGED start_log
    /\ FreshScript
    /\ pc' = "idle"
    /\ UNCHANGED <<sessionVars, transcriptVars, configVars, widgetVars, chat, remoteVars>>

Next ==
    \/ ClickReload
    \/ ClickStart
    \/ ClickStop
    \/ ClickVoice
    \/ SubmitForm
    \/ ChangeUpload
    \/ SelectProvider
    \/ Rerun
    \/ create_session
    \/ start_session
    \/ stop_session
    \/ VoiceTurn
    \/ UploadTurn
    \/ get_einstein_response
    \/ send_message_to_avatar
    \/ check_task_status
    \/ check_task_status_exhausted
    \/ message_form
    \/ EndRun

Spec == Init /\ [][Next]_vars

\* ------------------------------------------------------------ properties

\* The entries a run has appended to chat_history so far.
Appended == Len(chat_history) - h0

\* A run has taken a turn to the point where the script stops or reruns.
TurnOver == pc \in {"done", "rerun"} /\ surface # "none"

\* The held avatar session is in state Started: its start call succeeded and
\* no stop call has succeeded since.
Started == session_id # NoSession /\ session_id \in started

\* chat_history is a sequence of (user, assistant) pairs.
InPairs(h) ==
    /\ Len(h) % 2 = 0
    /\ \A i \in 1..Len(h) :
        h[i].role = IF i % 2 = 1 THEN "user" ELSE "assistant"

\* The texts the transcription functions return when the speech service is
\* unavailable or no credential is configured.
ServiceFailureTexts ==
    {GoogleRequestError, WhisperNoKey, WhisperServiceError, WhisperException}

\* The ways the speak step of a turn can fail.
SpeakFailures == {"post_rejected", "post_error", "failed", "missing", "error", "timeout"}

\* C1: when the run that handles a non-empty text submitted through
\* message_form is over, the text has been sent to the language model exactly
\* once and chat_history has gained exactly two entries: the user entry with
\* the text, then the assistant entry with the model's reply.
C1_TextTurnAppendsPair ==
    (TurnOver /\ surface = "text") =>
        /\ llm_sent = <<form_text>>
        /\ Appended = 2
        /\ chat_history[h0 + 1] = UserEntry(form_text)
        /\ chat_history[h0 + 2] = AssistantEntry(response_text)

\* C2: whenever no turn is in progress (the page is idle, or a run has stopped
\* or is about to rerun), chat_history is a sequence of complete
\* (user, assistant) pairs and the run has appended both entries or none.
C2_TranscriptInPairs ==
    pc \in {"idle", "done", "rerun"} =>
        /\ InPairs(chat_history)
        /\ Appended \in {0, 2}

\* C3: every speak request is issued against a session_id whose start call
\* succeeded and that has not been stopped since; a turn taken while the held
\* session is not Started issues none.
C3_SpeakOnlyWhenStarted ==
    \A i \in 1..Len(spoken) : spoken[i].started

\* C4: check_task_status terminates and sends at most max_attempts status
\* requests, whatever the answers: the number of requests never exceeds
\* max_attempts, and every pass of the loop either returns or counts an
\* attempt, of which there are never more than max_attempts.
C4_PollBounded ==
    /\ [](status_requests <= max_attempts /\ attempts <= max_attempts)
    /\ [][pc = "poll" => (pc' # "poll" \/ attempts' = attempts + 1)]_vars

\* C4 witness: the last request the bound allows was sent, after answers that
\* were not all 'processing', and met a transport error.
C4_Witness ==
    /\ pc = "rerun"
    /\ task_status = "error"
    /\ ~only_processing
    /\ status_requests = max_attempts

\* C5: answered 'processing' N times and then 'complete', N < max_attempts,
\* check_task_status returns success after exactly N + 1 status requests;
\* answered 'processing' max_attempts times, it returns failure after exactly
\* max_attempts requests.  (attempts is N while only_processing holds.)
C5_PollCounts ==
    /\ (task_status = "complete" /\ only_processing) =>
          /\ pc = "rerun"
          /\ attempts < max_attempts
          /\ status_requests = attempts + 1
    /\ (task_status = "timeout" /\ only_processing) =>
          /\ pc = "rerun"
          /\ attempts = max_attempts
          /\ status_requests = max_attempts

\* C5 witness: three 'processing' answers, then 'complete', four requests.
C5_Witness ==
    /\ task_status = "complete"
    /\ only_processing
    /\ attempts = 3
    /\ status_requests = 4

\* C6: whatever way the speak step of a turn fails, the turn goes on to its
\* st.rerun() with both of its entries in chat_history: the user entry and the
\* assistant entry with the reply.
C6_SpeakFailureKeepsTurn ==
    task_status \in SpeakFailures =>
        /\ pc = "rerun"
        /\ Appended = 2
        /\ chat_history[h0 + 1] = UserEntry(user_input)
        /\ chat_history[h0 + 2] = AssistantEntry(response_text)

\* C6 witness: the poll bound was exhausted in a turn that is over.
C6_Witness ==
    /\ task_status = "timeout"
    /\ status_requests = max_attempts
    /\ TurnOver
    /\ Appended = 2

\* C7: a step of an audio surface whose transcription is "Could not
\* understand audio" leaves chat_history, user_language and current_response
\* unchanged, calls no language model, issues no speak request, and leaves
\* that surface's block without a turn.
C7_UnintelligibleIsNoOp ==
    [][(pc \in {"voice", "upload"} /\ user_input' = CouldNotUnderstand) =>
          /\ UNCHANGED <<chat_history, user_language, current_response>>
          /\ UNCHANGED <<llm_sent, llm_outcome, spoken, surface>>
          /\ pc' \in {"upload", "text_form"}]_vars

\* C7 witness: an uploaded file was not understood, after an earlier turn had
\* stored a Korean question.
C7_Witness ==
    /\ user_input = CouldNotUnderstand
    /\ pc = "text_form"
    /\ uploaded_file
    /\ user_language = "Korean"
    /\ Len(chat_history) = 2

\* C8: the text a transcription function returns when the speech service is
\* unavailable or no credential is configured is never a user entry of
\* chat_history and is never sent to the language model.
C8_ServiceFailureRejected ==
    /\ \A i \in 1..Len(chat_history) :
          chat_history[i].role = "user" => chat_history[i].content \notin ServiceFailureTexts
    /\ \A i \in 1..Len(llm_sent) : llm_sent[i] \notin ServiceFailureTexts

\* C9: a turn that commits while the avatar session is Started issues exactly
\* one speak request, for the held session, with the content of the assistant
\* entry the turn appended, after that entry was appended; and status requests
\* are sent only for a task POST that returned code 100 with a task_id.
C9_OneSpeakOfTheReply ==
    /\ (TurnOver /\ Appended = 2 /\ Started) =>
          /\ Len(spoken) = 1
          /\ spoken[1].session_id = session_id
          /\ spoken[1].text = chat_history[h0 + 2].content
          /\ spoken[1].history = h0 + 2
    /\ (pc = "poll" \/ status_requests > 0) =>
          /\ Len(spoken) = 1
          /\ task_status \notin {"none", "post_rejected", "post_error"}

\* C9 witness: a committed turn whose reply the Started avatar spoke to
\* completion.
C9_Witness ==
    /\ TurnOver
    /\ Started
    /\ task_status = "complete"
    /\ Len(spoken) = 1
    /\ spoken[1].text = ModelReplyText

\* C10: once create_session has returned None (no data.session_id, or a failed
\* request), start_session is not called and session_id, access_token, url and
\* player_ready keep their values for the rest of the run; from Absent the
\* avatar state stays Absent.
C10_FailedCreateChangesNothing ==
    [][session_data' = "None" =>
          /\ UNCHANGED <<session_id, access_token, url, player_ready>>
          /\ pc' # "start_session"
          /\ start_calls' = <<>>]_vars

\* C10 witness: create_session returned None while no session was held.
C10_Witness ==
    /\ session_data = "None"
    /\ session_id = NoSession
    /\ ~player_ready
    /\ access_token = NoSession
    /\ start_calls = <<>>

\* C11: the streaming sessions the program has created and no successful stop
\* call has ended are never more than one.
C11_OneLiveSession ==
    Cardinality(live) <= 1

\* C12: a run appends to chat_history or issues a speak request only when a
\* chat session exists (initialize_einstein_bot returned a chat, not None);
\* without a Gemini key no input changes the transcript.
C12_NoTurnWithoutChat ==
    /\ (Appended > 0 \/ spoken # <<>>) => chat # None
    /\ ~gemini_api_key => chat_history = <<>>

\* C13: when the language-model call of an audio turn fails, response_text is
\* the fixed apology and the turn goes on with both entries in chat_history:
\* the user entry and the assistant entry whose content is the apology.
C13_ModelFailureGivesApology ==
    llm_outcome = "raised" =>
        /\ surface \in {"voice", "upload"}
        /\ pc \in {"speak", "poll", "rerun"}
        /\ response_text = Apology
        /\ Appended = 2
        /\ chat_history[h0 + 1] = UserEntry(user_input)
        /\ chat_history[h0 + 2] = AssistantEntry(Apology)

\* C13 witness: chat.send_message was called with the recorded question and
\* raised, and the voice turn is over.
C13_Witness ==
    /\ llm_outcome = "raised"
    /\ chat # None
    /\ llm_sent = <<user_input>>
    /\ surface = "voice"
    /\ pc = "rerun"

\* C14: a stop call that succeeds (the session leaves the live ones) is
\* followed by session_id = None, player_ready = False and a rerun with the
\* Start button enabled; a stop call that fails leaves session_id and
\* player_ready as they were.
C14_StopResetsOnlyOnSuccess ==
    [][pc = "stop_session" =>
          IF live' # live
          THEN /\ session_id' = NoSession
               /\ ~player_ready'
               /\ pc' = "rerun"
               /\ heygen_api_key'
          ELSE UNCHANGED <<session_id, player_ready>>]_vars

\* C14 witness: session 1 was stopped, and a later Start created and started
\* session 2.
C14_Witness ==
    /\ live = {2}
    /\ session_id = 2
    /\ player_ready
    /\ start_log = <<1, 2>>

\* C15: start_session is called at most once for a session_id, and only
\* in the run whose create call returned it, for the session just created.
C15_StartOncePerSession ==
    /\ [](\A i, j \in 1..Len(start_log) : start_log[i] = start_log[j] => i = j)
    /\ [][start_log' # start_log =>
            /\ pc = "start_session"
            /\ session_data = "data"
            /\ session_id = next_session - 1
            /\ start_log' = Append(start_log, session_id)]_vars

\* C15 witness: two sessions were created in two runs, the first start call
\* failed, the second succeeded, and a turn has since been taken.
C15_Witness ==
    /\ start_log = <<1, 2>>
    /\ started = {2}
    /\ Len(chat_history) = 2
    /\ pc = "idle"

\* C16: in the run begun by the st.rerun() of a committed uploaded-file turn
\* (whose user entry is what the recognizer heard in the file), with the file
\* still in the uploader, the file is not transcribed, sent to the language
\* model or spoken again: the uploader's block is passed over.
C16_UploadedFileOneTurn ==
    [][(/\ pc = "upload"
        /\ uploaded_file
        /\ rerun_of = "upload"
        /\ chat_history[Len(chat_history) - 1].content \in SpokenTexts) =>
          /\ UNCHANGED <<user_input, chat_history, llm_sent, spoken>>
          /\ pc' = "text_form"]_vars

====
